---- MODULE Spec2Model ----
(***************************************************************************)
(* A model of source/pvComm.py: the pvComm object, which holds a registry  *)
(* of EPICS process variables (PVs) and an append-mode log file, and whose *)
(* methods read and write PVs, sleep, and write log lines.                 *)
(*                                                                         *)
(* The caller is single-threaded: pc is the position of the one running    *)
(* method ("idle" between calls).  The hardware behind the PVs and whoever *)
(* else holds the log handle are the environment: they change status PVs   *)
(* and close the handle at any moment.                                     *)
(***************************************************************************)
EXTENDS Integers, Sequences, FiniteSets, TLC

VARIABLES
    pv,         \* self.pvs: the value behind every registered PV name
    logclosed,  \* self.logfid.closed
    logbuf,     \* what was written to self.logfid and is not flushed yet
    logfile,    \* the lines of the file at self.logfilepath
    pc,         \* position of the caller in the running method
    op,         \* the method that runs, or that ran last
    loc,        \* the running method's arguments and locals
    ret,        \* the value the last finished method returned
    err,        \* the exception that ended the last method ("none" if none)
    cmds,       \* what the running (or last) method did, in order
    now,        \* time.time(), in ticks of 0.2 s (see TicksPerSecond)
    calls,      \* how many methods were called so far
    hist        \* history of the session, for the properties

vars == <<pv, logclosed, logbuf, logfile, pc, op, loc, ret, err, cmds, now, calls, hist>>

(***************************************************************************)
(* Bounds of the model.                                                    *)
(***************************************************************************)
MaxCalls == 3        \* methods called in one session of the detector model
MaxBeamCalls == 2    \* methods called in one session of the beam model
MaxLog == 3          \* logger calls in one session of the logger model
MaxLen == 2          \* length of the lists given to assignPosValToPVs
MaxBDA == 2          \* BDA positions range over -MaxBDA*250 .. MaxBDA*250
MaxOversleep == 1    \* a sleep lasts between 1 and 1 + MaxOversleep ticks
MaxWait0 == 1        \* the 'wait' PV starts between 0 and MaxWait0

(***************************************************************************)
(* The PV registry (pvObjects.getPVobj) and the PV values.                 *)
(***************************************************************************)
StatusPVs == {"netCDF_status", "xmap_status", "mcs_status", "xztp_motor_ready"}
CommandPVs == {"wait", "netCDF_save", "netCDF_stp", "mcs_stp", "xmap_stp",
               "piezo_xCenter", "piezo_yCenter"}
MotorPVs == {"BDA_pos", "tomo_rot_Act", "sm_rot_Act", "x_motorMode", "y_motorMode",
             "x_center_Rqs", "y_center_Rqs", "x_updatecenter", "y_updatecenter",
             "x_piezo_val", "y_piezo_val"}
CryoPVs == {"CryoCon1:In_1", "CryoCon1:In_2", "CryoCon1:In_3", "CryoCon3:In_2",
            "CryoCon3:Loop_2"}
Registry == StatusPVs \cup CommandPVs \cup MotorPVs \cup CryoPVs

\* The strings a status PV reads as with get(as_string=True).
NetCDFStates == {"Done", "Writing"}
ReadyStates == {"Ready", "Moving"}
\* An Acquiring PV reads 0 when the detector is idle and 1 while it acquires.
AcquiringStates == {0, 1}

InitPV ==
    [n \in Registry |->
        CASE n = "netCDF_status" -> "Done"
          [] n = "xztp_motor_ready" -> "Ready"
          [] OTHER -> 0]

\* pv.put(v) of pyepics: the PV holds v afterwards.
PvPut(store, name, v) == [store EXCEPT ![name] = v]

\* pvObject.put_callback(v): a put of v that reports its completion.
put_callback(store, name, v) == PvPut(store, name, v)

Put(name, v) == [k |-> "put", pv |-> name, v |-> v]
Check == [k |-> "check", pv |-> "-", v |-> 0]
Range(s) == {s[i] : i \in 1..Len(s)}
IsPrefix(s, t) == Len(s) <= Len(t) /\ SubSeq(t, 1, Len(s)) = s

NoLoc == [none |-> 0]

(***************************************************************************)
(* Scan control and detector recovery (pvComm.py lines 75-140).            *)
(***************************************************************************)
DetLoc0 == [caller |-> "top", xmap_done |-> 0, mcs_done |-> 0, done |-> FALSE,
            ncPrinted |-> "unread", ncRead |-> "unread"]

\* scanPause: self.pvs['wait'].put_callback(1)
scanPause(store) == put_callback(store, "wait", 1)

\* scanResume: self.pvs['wait'].put_callback(0)
scanResume(store) == put_callback(store, "wait", 0)

\* Python's "not x" on a number.
PyNot(x) == x = 0

\* detectorDone's answer from the two values it read:
\*   if all([not xmap_done, not mcs_done]): return False  else: return True
detectorDone(xmap_done, mcs_done) ==
    IF PyNot(xmap_done) /\ PyNot(mcs_done) THEN FALSE ELSE TRUE

\* A resetDetector that saves and stops the netCDF file whatever its status.
AfterTest_Always(status) == "rd_save"

\* resetDetector, line 110: the netCDF commands are issued only on 'Writing'.
AfterTest(status) == IF status = "Writing" THEN "rd_save" ELSE "rd_mcs"

\* resetDetector, lines 118-122: 1 if detectorDone() else -1.
ResetResult(done) == IF done THEN 1 ELSE -1

\* resetDetector, lines 118-122: where a run goes after the idle check.
AfterCheck(done) == "idle"

DetInit ==
    /\ \E w \in 0..MaxWait0, x \in AcquiringStates, m \in AcquiringStates,
          s \in NetCDFStates :
         /\ pv = [InitPV EXCEPT !["wait"] = w, !["xmap_status"] = x,
                                !["mcs_status"] = m, !["netCDF_status"] = s]
         /\ hist = [wait0 |-> w, nPause |-> 0, nResume |-> 0]
    /\ logclosed = FALSE /\ logbuf = <<>> /\ logfile = <<>>
    /\ pc = "idle" /\ op = "none" /\ loc = DetLoc0
    /\ ret = 0 /\ err = "none" /\ cmds = <<>> /\ now = 0 /\ calls = 0

LogUnchanged == UNCHANGED <<logclosed, logbuf, logfile>>

CallScanPause ==
    /\ pc = "idle" /\ calls < MaxCalls
    /\ pv' = scanPause(pv)
    /\ op' = "scanPause" /\ cmds' = <<Put("wait", 1)>> /\ calls' = calls + 1
    /\ hist' = [hist EXCEPT !.nPause = @ + 1]
    /\ loc' = DetLoc0
    /\ UNCHANGED <<pc, ret, err, now>> /\ LogUnchanged

CallScanResume ==
    /\ pc = "idle" /\ calls < MaxCalls
    /\ pv' = scanResume(pv)
    /\ op' = "scanResume" /\ cmds' = <<Put("wait", 0)>> /\ calls' = calls + 1
    /\ hist' = [hist EXCEPT !.nResume = @ + 1]
    /\ loc' = DetLoc0
    /\ UNCHANGED <<pc, ret, err, now>> /\ LogUnchanged

\* detectorDone, line 135: xmap_done is read first.
CallDetectorDone ==
    /\ pc = "idle" /\ calls < MaxCalls
    /\ op' = "detectorDone" /\ calls' = calls + 1 /\ cmds' = <<>>
    /\ loc' = [DetLoc0 EXCEPT !.xmap_done = pv["xmap_status"]]
    /\ pc' = "dd_mcs"
    /\ UNCHANGED <<pv, ret, err, now, hist>> /\ LogUnchanged

\* detectorDone, lines 136-140: mcs_done is read, and the answer returned to
\* the caller, which is the session or resetDetector.
DetectorDoneReturn ==
    /\ pc = "dd_mcs"
    /\ LET m == pv["mcs_status"]
           d == detectorDone(loc.xmap_done, m)
       IN /\ loc' = [loc EXCEPT !.mcs_done = m, !.done = d]
          /\ IF loc.caller = "top"
                THEN pc' = "idle" /\ ret' = d /\ cmds' = cmds
                ELSE pc' = "rd_ret" /\ ret' = ret /\ cmds' = Append(cmds, Check)
    /\ UNCHANGED <<pv, op, err, now, calls, hist>> /\ LogUnchanged

\* resetDetector, line 109: the status is read once for the printed line.
CallResetDetector ==
    /\ pc = "idle" /\ calls < MaxCalls
    /\ op' = "resetDetector" /\ calls' = calls + 1 /\ cmds' = <<>>
    /\ loc' = [DetLoc0 EXCEPT !.caller = "resetDetector",
                              !.ncPrinted = pv["netCDF_status"]]
    /\ pc' = "rd_test"
    /\ UNCHANGED <<pv, ret, err, now, hist>> /\ LogUnchanged

\* resetDetector, line 110: the status is read again and tested.
ResetTest ==
    /\ pc = "rd_test"
    /\ loc' = [loc EXCEPT !.ncRead = pv["netCDF_status"]]
    /\ pc' = AfterTest(pv["netCDF_status"])
    /\ UNCHANGED <<pv, op, ret, err, cmds, now, calls, hist>> /\ LogUnchanged

\* One command of resetDetector: put 1 to the PV, go on to the next line.
ResetCommand(name, next) ==
    /\ pv' = PvPut(pv, name, 1)
    /\ cmds' = Append(cmds, Put(name, 1))
    /\ pc' = next
    /\ UNCHANGED <<op, loc, ret, err, now, calls, hist>> /\ LogUnchanged

ResetSave == pc = "rd_save" /\ ResetCommand("netCDF_save", "rd_stp")   \* line 112
ResetStopFile == pc = "rd_stp" /\ ResetCommand("netCDF_stp", "rd_mcs")   \* line 114
ResetStopMCS == pc = "rd_mcs" /\ ResetCommand("mcs_stp", "rd_xmap")   \* line 115
ResetStopXMAP == pc = "rd_xmap" /\ ResetCommand("xmap_stp", "rd_check")   \* line 116

\* resetDetector, lines 117-118: after the sleep, detectorDone() is called
\* and reads xmap_done.
ResetCheck ==
    /\ pc = "rd_check"
    /\ loc' = [loc EXCEPT !.xmap_done = pv["xmap_status"]]
    /\ pc' = "dd_mcs"
    /\ UNCHANGED <<pv, op, ret, err, cmds, now, calls, hist>> /\ LogUnchanged

\* resetDetector, lines 118-122.
ResetReturn ==
    /\ pc = "rd_ret"
    /\ ret' = ResetResult(loc.done)
    /\ IF loc.done
          THEN /\ pv' = scanResume(pv)
               /\ cmds' = Append(cmds, Put("wait", 0))
               /\ hist' = [hist EXCEPT !.nResume = @ + 1]
          ELSE UNCHANGED <<pv, cmds, hist>>
    /\ pc' = AfterCheck(loc.done)
    /\ UNCHANGED <<op, loc, err, now, calls>> /\ LogUnchanged

\* The hardware: a status PV changes value.
EnvAcquiring ==
    /\ \E n \in {"xmap_status", "mcs_status"}, v \in AcquiringStates :
         pv[n] # v /\ pv' = PvPut(pv, n, v)
    /\ UNCHANGED <<pc, op, loc, ret, err, cmds, now, calls, hist>> /\ LogUnchanged

EnvNetCDF ==
    /\ \E v \in NetCDFStates :
         pv["netCDF_status"] # v /\ pv' = PvPut(pv, "netCDF_status", v)
    /\ UNCHANGED <<pc, op, loc, ret, err, cmds, now, calls, hist>> /\ LogUnchanged

Next ==
    \/ CallScanPause \/ CallScanResume
    \/ CallDetectorDone \/ DetectorDoneReturn
    \/ CallResetDetector \/ ResetTest
    \/ ResetSave \/ ResetStopFile \/ ResetStopMCS \/ ResetStopXMAP
    \/ ResetCheck \/ ResetReturn
    \/ EnvAcquiring \/ EnvNetCDF

Spec == DetInit /\ [][Next]_vars

(***************************************************************************)
(* Properties of scan control and detector recovery.                       *)
(***************************************************************************)

\* C1: detectorDone returns True exactly when both the XMAP and the MCS
\* acquiring status it read are idle (0), and False whenever either is active.
C1_DetectorDoneIffIdle ==
    (op = "detectorDone" /\ pc = "idle") =>
        (ret = ((loc.xmap_done = 0) /\ (loc.mcs_done = 0)))

\* C2: resetDetector returns 1 and writes 0 to 'wait' exactly when both XMAP
\* and MCS read idle at the check after the stop commands; otherwise it
\* returns -1 and does not write 'wait'; it returns nothing but 1 or -1.
C2_ResetResumesIffIdle ==
    (op = "resetDetector" /\ pc = "idle") =>
        LET idle == (loc.xmap_done = 0) /\ (loc.mcs_done = 0)
        IN /\ ret \in {1, -1}
           /\ (ret = 1) <=> idle
           /\ (Put("wait", 0) \in Range(cmds)) <=> idle

\* C3: scanPause adds 1 to the 'wait' PV and scanResume subtracts 1, so
\* after n pauses and m resumes 'wait' is its initial value plus n minus m
\* (two pauses and one resume leave wait > 0).
C3_WaitCounts ==
    pv["wait"] = hist.wait0 + hist.nPause - hist.nResume

\* What resetDetector issues, in order, up to the idle check, given the
\* netCDF status it tested.
ResetPlan(nc) ==
    (IF nc = "Writing" THEN <<Put("netCDF_save", 1), Put("netCDF_stp", 1)>> ELSE <<>>)
    \o <<Put("mcs_stp", 1), Put("xmap_stp", 1), Check>>

\* C9: resetDetector issues its commands in a fixed order, each at most
\* once: netCDF save then netCDF stop only if the status tested is
\* 'Writing', the MCS stop then the XMAP stop in every run, the idle check
\* only after both, and no stop command again when the check fails.
C9_ResetOrder ==
    (op = "resetDetector") =>
        /\ (loc.ncRead = "unread") => (cmds = <<>>)
        /\ (loc.ncRead # "unread") =>
              IsPrefix(cmds, ResetPlan(loc.ncRead) \o <<Put("wait", 0)>>)
        /\ (pc = "idle") => IsPrefix(ResetPlan(loc.ncRead), cmds)

\* A finished run that saved the netCDF file and whose check failed.
C9_Witness ==
    /\ op = "resetDetector" /\ pc = "idle"
    /\ loc.ncRead = "Writing" /\ ret = -1 /\ Len(cmds) = 5

(***************************************************************************)
(* The log file (pvComm.py lines 27-43).                                   *)
(***************************************************************************)

\* open(path, 'w') in place of open(path, 'a'): the file is emptied.
OpenTruncate(file) == <<>>

\* open(self.logfilepath, 'a'): the file keeps its content and writes go
\* to its end.
OpenAppend(file) == file

\* The handle and the file as one value.
LogState == [closed |-> logclosed, buf |-> logbuf, file |-> logfile, err |-> err]

\* self.logfid.write(msg): ValueError on a closed handle, else buffered.
Write(L, msg) ==
    IF L.closed THEN [L EXCEPT !.err = "ValueError"]
                ELSE [L EXCEPT !.buf = Append(@, msg)]

\* self.logfid.flush(): the buffer reaches the end of the file.
Flush(L) == [L EXCEPT !.file = @ \o L.buf, !.buf = <<>>]

\* logger(msg), lines 40-43 (lines 38-39 echo msg to stdout).
logger(L, msg) ==
    LET L1 == IF L.closed
                 THEN [L EXCEPT !.closed = FALSE, !.buf = <<>>,
                                !.file = OpenAppend(@)]
                 ELSE L
        L2 == Write(L1, msg)
    IN IF L2.err # "none" THEN L2 ELSE Flush(L2)

\* The result of a sequence of logger calls.
RECURSIVE LogAll(_, _)
LogAll(L, msgs) ==
    IF msgs = <<>> \/ L.err # "none" THEN L
    ELSE LogAll(logger(L, Head(msgs)), Tail(msgs))

SetLog(L) ==
    /\ logclosed' = L.closed /\ logbuf' = L.buf /\ logfile' = L.file /\ err' = L.err

\* The messages of the logger model, and a line left by an earlier session.
Msgs == {"m1\n", "m2\n", "m3\n"}
OldLine == "old\n"

LoggerInit ==
    /\ pv = InitPV
    /\ logclosed = FALSE /\ logbuf = <<>>
    /\ logfile \in {<<>>, <<OldLine>>}
    /\ pc = "idle" /\ op = "none" /\ loc = NoLoc
    /\ ret = 0 /\ err = "none" /\ cmds = <<>> /\ now = 0 /\ calls = 0
    /\ hist = [nlog |-> 0, lastMsg |-> "", reopened |-> FALSE]

CallLogger ==
    /\ pc = "idle" /\ err = "none" /\ hist.nlog < MaxLog
    /\ \E msg \in Msgs :
         /\ SetLog(logger(LogState, msg))
         /\ hist' = [nlog |-> hist.nlog + 1, lastMsg |-> msg,
                     reopened |-> hist.reopened \/ logclosed]
    /\ op' = "logger" /\ calls' = calls + 1
    /\ UNCHANGED <<pv, pc, loc, ret, cmds, now>>

\* Someone else closes the handle: close() flushes, then the handle is closed.
ExternalClose ==
    /\ pc = "idle" /\ ~logclosed
    /\ LET L == Flush(LogState)
       IN logclosed' = TRUE /\ logbuf' = L.buf /\ logfile' = L.file
    /\ UNCHANGED <<pv, pc, op, loc, ret, err, cmds, now, calls, hist>>

LoggerNext == CallLogger \/ ExternalClose

LoggerSpec == LoggerInit /\ [][LoggerNext]_vars

\* C6: the log file is append-only and reopened if found closed: logger
\* never writes to a closed handle, every message given to logger is
\* appended to the file, and the content before any step is a prefix of the
\* content after it.
C6_LogAppendOnly ==
    /\ [][err' # "ValueError"]_vars
    /\ [][hist.nlog' # hist.nlog => logfile' = Append(logfile, hist.lastMsg')]_vars
    /\ [][IsPrefix(logfile, logfile')]_vars

\* logger has reopened a closed handle and the file holds earlier lines too.
C6_Witness ==
    /\ op = "logger" /\ hist.reopened /\ ~logclosed
    /\ Len(logfile) >= 3 /\ logfile[1] = OldLine

(***************************************************************************)
(* Log lines.  A line is kept as the pieces the format string joins: the   *)
(* timestamp, the separator that follows it, the text with its formatted   *)
(* values, and the line end.                                               *)
(***************************************************************************)

\* misc.getCurrentTime(): the current time as text.
getCurrentTime == "<timestamp>"

\* '%.<dec>f' % val
Fmt(val, dec) == [val |-> val, dec |-> dec]

\* '%s<sep><text>\n' % (getCurrentTime(), values...)
Line(sep, text, name, nums) ==
    [ts |-> getCurrentTime, sep |-> sep, text |-> text, name |-> name,
     nums |-> nums, nl |-> "\n"]

NoLine == [ts |-> "", sep |-> "", text |-> "", name |-> "", nums |-> <<>>, nl |-> ""]
Log(line) == [k |-> "log", pv |-> "-", v |-> 0, line |-> line]
PutEv(name, v) == [k |-> "put", pv |-> name, v |-> v, line |-> NoLine]

\* The format "<timestamp>: <message>\n".
WellFormed(line) == line.ts = getCurrentTime /\ line.sep = ": " /\ line.nl = "\n"

(***************************************************************************)
(* The beam-defining aperture (pvComm.py lines 187-213).                   *)
(***************************************************************************)
BlockDistance == 500
BDAVals == {250 * k : k \in -MaxBDA..MaxBDA}

\* A block position on the other side of the IN position.
BlockPosition_Plus(BDA) == BDA + BlockDistance

\* blockBeamBDA, line 197: bda_pos = BDA - 500
BlockPosition(BDA) == BDA - BlockDistance

\* openBeamBDA, line 213: the position put is BDA itself.
OpenPosition(BDA) == BDA

\* blockBeamBDA(BDA), lines 197-200.
BlockBeamBDA(BDA) ==
    /\ pc = "idle"
    /\ LET bda_pos == BlockPosition(BDA)
           line == Line(": ", "Move BDA to block position at: %.3f", "",
                        <<Fmt(bda_pos, 3)>>)
       IN /\ SetLog(logger(LogState, line))
          /\ pv' = put_callback(pv, "BDA_pos", bda_pos)
          /\ cmds' = <<Log(line), PutEv("BDA_pos", bda_pos)>>
    /\ op' = "blockBeamBDA" /\ loc' = [BDA |-> BDA] /\ calls' = calls + 1
    /\ UNCHANGED <<pc, ret, now>>

\* openBeamBDA(BDA), lines 212-213.
OpenBeamBDA(BDA) ==
    /\ pc = "idle"
    /\ LET line == Line(": ", "Move BDA to open position at: %.3f", "",
                        <<Fmt(BDA, 3)>>)
       IN /\ SetLog(logger(LogState, line))
          /\ pv' = put_callback(pv, "BDA_pos", OpenPosition(BDA))
          /\ cmds' = <<Log(line), PutEv("BDA_pos", OpenPosition(BDA))>>
    /\ op' = "openBeamBDA" /\ loc' = [BDA |-> BDA] /\ calls' = calls + 1
    /\ UNCHANGED <<pc, ret, now>>

BeamInit ==
    /\ \E b \in BDAVals : pv = [InitPV EXCEPT !["BDA_pos"] = b]
    /\ logclosed = FALSE /\ logbuf = <<>> /\ logfile = <<>>
    /\ pc = "idle" /\ op = "none" /\ loc = [BDA |-> 0]
    /\ ret = 0 /\ err = "none" /\ cmds = <<>> /\ now = 0 /\ calls = 0
    /\ hist = [prevOp |-> "none", prevBDA |-> 0]

BeamBlock ==
    /\ calls < MaxBeamCalls
    /\ \E B \in BDAVals : BlockBeamBDA(B)
    /\ hist' = [prevOp |-> op, prevBDA |-> loc.BDA]

BeamOpen ==
    /\ calls < MaxBeamCalls
    /\ \E B \in BDAVals : OpenBeamBDA(B)
    /\ hist' = [prevOp |-> op, prevBDA |-> loc.BDA]

BeamNext == BeamBlock \/ BeamOpen

BeamSpec == BeamInit /\ [][BeamNext]_vars

\* C8: blockBeamBDA(B) requests the BDA position B - 500, which is never B,
\* and openBeamBDA(B) requests exactly B, so a block followed by an open
\* with the same B leaves the requested position at B; each of the two puts
\* to no PV other than 'BDA_pos'.
C8_BlockOpen ==
    /\ (op = "blockBeamBDA") =>
          (pv["BDA_pos"] = loc.BDA - 500 /\ pv["BDA_pos"] # loc.BDA)
    /\ (op = "openBeamBDA") => (pv["BDA_pos"] = loc.BDA)
    /\ \A n \in Registry \ {"BDA_pos"} : pv[n] = InitPV[n]
    /\ \A i \in 1..Len(cmds) : cmds[i].k = "put" => cmds[i].pv = "BDA_pos"

\* The beam was blocked and then opened again with the same IN position.
C8_Witness ==
    /\ op = "openBeamBDA" /\ hist.prevOp = "blockBeamBDA"
    /\ hist.prevBDA = loc.BDA /\ pv["BDA_pos"] = loc.BDA /\ loc.BDA = 500

(***************************************************************************)
(* The methods that log what they do (pvComm.py lines 142-324).  A session *)
(* of this part is one call of one method, from any state of the log       *)
(* handle and of the readiness flag.                                       *)
(***************************************************************************)
Angles == {0, 90}
AssignNames == {"x_center_Rqs", "y_center_Rqs", "no_such_pv"}
AssignVals == {1, 2}
TempPVs == <<"CryoCon1:In_1", "CryoCon1:In_2", "CryoCon1:In_3", "CryoCon3:In_2",
             "CryoCon3:Loop_2">>

\* self.pvs[name]: the lookup fails on a name the registry does not hold.
Registered(name) == name \in Registry

\* np.round(x, 2) and round(x, 2): the PV values of the model are whole
\* numbers, which rounding to two decimals leaves as they are.
Round2(x) == x

IsLog(e) == e.k = "log"
IsPut(e) == e.k = "put"

LinesOf(events) ==
    LET logs == SelectSeq(events, IsLog)
    IN [i \in 1..Len(logs) |-> logs[i].line]

RECURSIVE PutAll(_, _)
PutAll(store, events) ==
    IF events = <<>> THEN store
    ELSE PutAll(IF IsPut(Head(events))
                   THEN PvPut(store, Head(events).pv, Head(events).v)
                   ELSE store,
                Tail(events))

\* A method that runs from its first line to its last without waiting:
\* its puts and its log lines, in the order of its code.
Straight(events) ==
    /\ pc = "idle" /\ calls = 0
    /\ SetLog(LogAll(LogState, LinesOf(events)))
    /\ pv' = PutAll(pv, events)
    /\ cmds' = events
    /\ calls' = calls + 1
    /\ UNCHANGED <<pc, loc, ret, now, hist>>

\* logCryoTemp, lines 151-155.
LogCryoTemp ==
    /\ op' = "logCryoTemp"
    /\ Straight(<<Log(Line(": ", "%s: %.2f, %s: %.2f, %s: %.2f, %s: %.2f, %s: %.2f", "",
                   [i \in 1..Len(TempPVs) |-> Fmt(pv[TempPVs[i]], 2)]))>>)

\* changeTomoRotate(theta), lines 167-170.
ChangeTomoRotate ==
    \E theta \in Angles :
        /\ op' = "changeTomoRotate"
        /\ Straight(<<Log(Line("; ", "Changing tomo rotation angle from to %.2f to %.2f", "",
                       <<Fmt(Round2(pv["tomo_rot_Act"]), 2), Fmt(theta, 2)>>)),
              PutEv("tomo_rot_Act", theta)>>)

\* changeSMRotate(theta), lines 182-185.
ChangeSMRotate ==
    \E theta \in Angles :
        /\ op' = "changeSMRotate"
        /\ Straight(<<Log(Line("; ", "Changing sample rotation angle from to %.2f to %.2f", "",
                       <<Fmt(Round2(pv["sm_rot_Act"]), 2), Fmt(theta, 2)>>)),
              PutEv("sm_rot_Act", theta)>>)

\* changeXYcombinedMode, lines 221-223.
ChangeXYcombinedMode ==
    /\ op' = "changeXYcombinedMode"
    /\ Straight(<<Log(Line("; ", "Changing XY scan mode to combined motion", "", <<>>)),
          PutEv("x_motorMode", 0), PutEv("y_motorMode", 0)>>)

\* changeXtoCombinedMode, lines 230-231.
ChangeXtoCombinedMode ==
    /\ op' = "changeXtoCombinedMode"
    /\ Straight(<<Log(Line("; ", "Changing XY scan mode to combined motion", "", <<>>)),
          PutEv("x_motorMode", 0)>>)

\* changeXtoPiezolMode, lines 238-239.
ChangeXtoPiezolMode ==
    /\ op' = "changeXtoPiezolMode"
    /\ Straight(<<Log(Line(": ", "Changing X scan mode to Piezo only", "", <<>>)),
          PutEv("x_motorMode", 2)>>)

\* setXYcenter, lines 247-254.
SetXYcenter ==
    LET x_rqs == pv["x_center_Rqs"]
        y_rqs == pv["y_center_Rqs"]
    IN /\ op' = "setXYcenter"
       /\ Straight(
            <<Log(Line(": ", "Update the current position as the center ofthe scan.",
                       "", <<>>)),
              PutEv("x_updatecenter", Round2(x_rqs)),
              PutEv("y_updatecenter", Round2(y_rqs)),
              Log(Line(": ", "X_center valute: %.2f ", "", <<Fmt(x_rqs, 2)>>)),
              Log(Line(": ", "Y_center valute: %.2f ", "", <<Fmt(y_rqs, 2)>>))>>)

\* blockBeamBDA and openBeamBDA as one call of a session.
OpBlockBeamBDA ==
    /\ calls = 0 /\ \E B \in BDAVals : BlockBeamBDA(B)
    /\ UNCHANGED hist

OpOpenBeamBDA ==
    /\ calls = 0 /\ \E B \in BDAVals : OpenBeamBDA(B)
    /\ UNCHANGED hist

\* Lines 320 and 324: '%s: Change %s to %.3f\n'
ChangeLine(name, val) == Line(": ", "Change %s to %.3f", name, <<Fmt(val, 3)>>)

\* assignSinglePV(pvstr, pvval), lines 323-324.
AssignSinglePV ==
    /\ op' = "assignSinglePV"
    /\ \E name \in AssignNames, val \in AssignVals :
         IF Registered(name)
            THEN Straight(<<PutEv(name, val), Log(ChangeLine(name, val))>>)
            ELSE /\ pc = "idle" /\ calls = 0
                 /\ calls' = calls + 1
                 /\ err' = "KeyError" /\ cmds' = <<>>
                 /\ UNCHANGED <<pv, pc, loc, ret, now, hist>> /\ LogUnchanged

(***************************************************************************)
(* assignPosValToPVs (pvComm.py lines 318-320).                            *)
(***************************************************************************)
Min(a, b) == IF a <= b THEN a ELSE b

RECURSIVE SeqsUpTo(_, _)
SeqsUpTo(S, n) ==
    IF n = 0 THEN {<<>>}
    ELSE LET shorter == SeqsUpTo(S, n - 1)
         IN shorter \cup {Append(q, x) : q \in shorter, x \in S}

\* A loop that stops one pair early.
ZipLen_Short(pvstr, pvval) ==
    IF Min(Len(pvstr), Len(pvval)) > 0 THEN Min(Len(pvstr), Len(pvval)) - 1 ELSE 0

\* zip(pvstr, pvval) ends with the shorter list.
ZipLen(pvstr, pvval) == Min(Len(pvstr), Len(pvval))

\* The call, and the loop's first test.
CallAssignPosValToPVs ==
    /\ pc = "idle" /\ calls = 0
    /\ \E pvstr \in SeqsUpTo(AssignNames, MaxLen), pvval \in SeqsUpTo(AssignVals, MaxLen) :
         /\ loc' = [pvstr |-> pvstr, pvval |-> pvval, i |-> 1]
         /\ pc' = IF 1 <= ZipLen(pvstr, pvval) THEN "as_put" ELSE "idle"
    /\ op' = "assignPosValToPVs" /\ calls' = calls + 1 /\ cmds' = <<>>
    /\ UNCHANGED <<pv, ret, err, now, hist>> /\ LogUnchanged

\* Line 319: self.pvs[s_].pv.put(v_); the lookup of s_ may fail.
AssignPut ==
    /\ pc = "as_put"
    /\ LET name == loc.pvstr[loc.i]
           val == loc.pvval[loc.i]
       IN IF Registered(name)
             THEN /\ pv' = PvPut(pv, name, val)
                  /\ cmds' = Append(cmds, PutEv(name, val))
                  /\ pc' = "as_log" /\ err' = err
             ELSE /\ err' = "KeyError" /\ pc' = "idle"
                  /\ UNCHANGED <<pv, cmds>>
    /\ UNCHANGED <<op, loc, ret, now, calls, hist>> /\ LogUnchanged

\* Line 320: the log line of the pair, then the loop's next test.
AssignLog ==
    /\ pc = "as_log"
    /\ LET line == ChangeLine(loc.pvstr[loc.i], loc.pvval[loc.i])
       IN /\ SetLog(logger(LogState, line))
          /\ cmds' = Append(cmds, Log(line))
    /\ loc' = [loc EXCEPT !.i = @ + 1]
    /\ pc' = IF loc.i + 1 <= ZipLen(loc.pvstr, loc.pvval) THEN "as_put" ELSE "idle"
    /\ UNCHANGED <<pv, op, ret, now, calls, hist>>

(***************************************************************************)
(* centerPiezoXY (pvComm.py lines 258-303).  A tick of the clock is the    *)
(* 0.2 s of the loop's sleep.                                              *)
(***************************************************************************)
MAX_WAIT_TIME == 5
TicksPerSecond == 5
Budget == MAX_WAIT_TIME * TicksPerSecond

\* motorReady_XZTP, lines 268-270, on the status string it read.
motorReady_XZTP(status) == IF status = "Ready" THEN 1 ELSE 0

\* A loop that goes on while either condition holds.
WaitMore_Or(ready, t_diff) == PyNot(ready) \/ (t_diff < Budget)

\* Line 298: (not self.motorReady_XZTP()) & (t_diff < MAX_WAIT_TIME)
WaitMore(ready, t_diff) == PyNot(ready) /\ (t_diff < Budget)

\* A return of what the loop's last test read.
ReturnValue_Stale(loopRead, freshRead) == loopRead

\* Line 303: return self.motorReady_XZTP(), a read of its own.
ReturnValue(loopRead, freshRead) == freshRead

\* Lines 291-297.
CallCenterPiezoXY ==
    /\ pc = "idle" /\ calls = 0
    /\ LET events ==
             <<Log(Line(": ", "Centering piezoX and piezoY.", "", <<>>)),
               PutEv("piezo_xCenter", 1), PutEv("piezo_yCenter", 1),
               Log(Line(": ", "Piezo xcenter value: %.2f", "",
                        <<Fmt(pv["x_piezo_val"], 2)>>)),
               Log(Line(": ", "Piezo ycenter value: %.2f", "",
                        <<Fmt(pv["y_piezo_val"], 2)>>))>>
       IN /\ SetLog(LogAll(LogState, LinesOf(events)))
          /\ pv' = PutAll(pv, events)
          /\ cmds' = events
    /\ loc' = [tin |-> now, t_diff |-> 0, ready |-> 0, iters |-> 0]
    /\ op' = "centerPiezoXY" /\ calls' = calls + 1 /\ pc' = "cp_test"
    /\ UNCHANGED <<ret, now, hist>>

\* Line 298: the loop's test reads the readiness flag.
CenterTest ==
    /\ pc = "cp_test"
    /\ LET status == pv["xztp_motor_ready"]
           ready == motorReady_XZTP(status)
           more == WaitMore(ready, loc.t_diff)
       IN /\ loc' = [loc EXCEPT !.ready = ready]
          /\ pc' = IF more THEN "cp_wait" ELSE "cp_ret"
          /\ hist' = [hist EXCEPT
                        !.firstRead = IF @ = "unread" THEN status ELSE @,
                        !.exit = IF more THEN @
                                 ELSE IF ready = 1 THEN "ready" ELSE "timeout"]
    /\ UNCHANGED <<pv, op, ret, err, cmds, now, calls>> /\ LogUnchanged

\* Lines 299-301: the log line, the elapsed time, the sleep.
CenterWait ==
    /\ pc = "cp_wait"
    /\ LET line == Line(": ", "Waiting for XZTPX to be ready.", "", <<>>)
       IN /\ SetLog(logger(LogState, line))
          /\ cmds' = Append(cmds, Log(line))
    /\ loc' = [loc EXCEPT !.t_diff = now - loc.tin, !.iters = @ + 1]
    /\ \E d \in 1..(1 + MaxOversleep) : now' = now + d
    /\ pc' = "cp_test"
    /\ UNCHANGED <<pv, op, ret, calls, hist>>

\* Line 303.
CenterReturn ==
    /\ pc = "cp_ret"
    /\ LET status == pv["xztp_motor_ready"]
       IN /\ ret' = ReturnValue(loc.ready, motorReady_XZTP(status))
          /\ hist' = [hist EXCEPT !.lastRead = status]
    /\ pc' = "idle"
    /\ UNCHANGED <<pv, op, loc, err, cmds, now, calls>> /\ LogUnchanged

\* The motor controller: the readiness flag changes.
EnvReady ==
    /\ \E v \in ReadyStates :
         pv["xztp_motor_ready"] # v /\ pv' = PvPut(pv, "xztp_motor_ready", v)
    /\ UNCHANGED <<pc, op, loc, ret, err, cmds, now, calls, hist>> /\ LogUnchanged

OpInit ==
    /\ \E r \in ReadyStates : pv = [InitPV EXCEPT !["xztp_motor_ready"] = r]
    /\ logclosed \in BOOLEAN /\ logbuf = <<>> /\ logfile = <<>>
    /\ pc = "idle" /\ op = "none" /\ loc = NoLoc
    /\ ret = 0 /\ err = "none" /\ cmds = <<>> /\ now = 0 /\ calls = 0
    /\ hist = [firstRead |-> "unread", lastRead |-> "unread", exit |-> "none",
               pv0 |-> pv]

\* The steps of a method that has been called.
OpProgram ==
    \/ AssignPut \/ AssignLog
    \/ CenterTest \/ CenterWait \/ CenterReturn

OpNext ==
    \/ LogCryoTemp \/ ChangeTomoRotate \/ ChangeSMRotate
    \/ OpBlockBeamBDA \/ OpOpenBeamBDA
    \/ ChangeXYcombinedMode \/ ChangeXtoCombinedMode \/ ChangeXtoPiezolMode
    \/ SetXYcenter \/ AssignSinglePV
    \/ CallAssignPosValToPVs \/ CallCenterPiezoXY
    \/ OpProgram
    \/ EnvReady

OpSpec == OpInit /\ [][OpNext]_vars

\* The caller is one running thread: a method that was called goes on.
FairOpSpec == OpSpec /\ WF_vars(OpProgram)

(***************************************************************************)
(* Properties of the logging methods.                                      *)
(***************************************************************************)

\* C4: centerPiezoXY returns the readiness flag as read once more after the
\* waiting loop has ended: 1 iff that read is 'Ready', whether the loop
\* ended on readiness or on the expired budget.
C4_ReturnsLastRead ==
    (op = "centerPiezoXY" /\ pc = "idle") =>
        /\ hist.exit \in {"ready", "timeout"}
        /\ ret = (IF hist.lastRead = "Ready" THEN 1 ELSE 0)

\* The loop ended because it saw the motor ready, the flag changed before
\* the last read, and 0 was returned.
C4_Witness ==
    /\ op = "centerPiezoXY" /\ pc = "idle"
    /\ hist.exit = "ready" /\ hist.lastRead = "Moving" /\ ret = 0

MaxIters == Budget + 1

\* C5: centerPiezoXY always terminates when the clock advances across each
\* sleep: the loop goes on only while the motor read as not ready and the
\* measured elapsed time is below the 5-second budget, so it does at most a
\* bounded number of iterations, and none when the first read is 'Ready'.
C5_Terminates ==
    /\ [][(op' = "centerPiezoXY" /\ pc = "cp_test" /\ pc' = "cp_wait") =>
            (pv["xztp_motor_ready"] # "Ready"
             /\ loc.t_diff < MAX_WAIT_TIME * TicksPerSecond)]_vars
    /\ [][(op' = "centerPiezoXY" /\ pc' # "cp_test") =>
            (loc.iters' <= MaxIters
             /\ (hist.firstRead' = "Ready" => loc.iters' = 0))]_vars
    /\ (op = "centerPiezoXY") ~> (op = "centerPiezoXY" /\ pc = "idle")

\* A run whose motor never read ready and that used the whole budget.
C5_Witness ==
    /\ op = "centerPiezoXY" /\ pc = "idle"
    /\ hist.exit = "timeout" /\ loc.iters = MaxIters

\* C7: every line a pvComm method writes to the log is
\* "<timestamp>: <message>\n": the timestamp, a colon and a space, the
\* message, a newline.
C7_LineFormat ==
    \A i \in 1..Len(logfile) : WellFormed(logfile[i])

\* What assignPosValToPVs has done after its first k pairs.
RECURSIVE Applied(_, _, _)
Applied(pvstr, pvval, k) ==
    IF k = 0 THEN <<>>
    ELSE Applied(pvstr, pvval, k - 1)
         \o <<PutEv(pvstr[k], pvval[k]), Log(ChangeLine(pvstr[k], pvval[k]))>>

\* The pairs assignPosValToPVs applies: those before the first name, among
\* the first n, that the registry does not hold.
GoodPairs(pvstr, n) ==
    LET bad == {i \in 1..n : pvstr[i] \notin Registry}
    IN IF bad = {} THEN n ELSE (CHOOSE i \in bad : \A j \in bad : i <= j) - 1

AssignOutcome(n) ==
    LET k == GoodPairs(loc.pvstr, n)
        done == Applied(loc.pvstr, loc.pvval, k)
    IN /\ err = (IF k < n THEN "KeyError" ELSE "none")
       /\ cmds = done
       /\ logfile = LinesOf(done)
       /\ \A name \in Registry \ StatusPVs : pv[name] = PutAll(hist.pv0, done)[name]

\* C10 as stated: a name of pvstr that the registry does not hold, wherever
\* it stands in pvstr, makes the call fail at that name, with the earlier
\* pairs applied and nothing after them.
C10_FailsAtAnyUnknownName ==
    (op = "assignPosValToPVs" /\ pc = "idle") =>
        LET bad == {i \in 1..Len(loc.pvstr) : loc.pvstr[i] \notin Registry}
            first == CHOOSE i \in bad : \A j \in bad : i <= j
        IN (bad # {}) =>
              /\ err = "KeyError"
              /\ Len(cmds) = 2 * (first - 1)
              /\ Len(logfile) = first - 1

\* C10, amended: the pairs are applied in list order, a put then a log line
\* each, over the first min(len(pvstr), len(pvval)) pairs only; a name among
\* those that the registry does not hold ends the call there with the
\* error, the earlier pairs applied and nothing for that name or later ones.
C10_AssignInOrder ==
    /\ (op = "assignPosValToPVs") =>
          IsPrefix(cmds, Applied(loc.pvstr, loc.pvval,
                                 GoodPairs(loc.pvstr,
                                           IF Len(loc.pvstr) <= Len(loc.pvval)
                                              THEN Len(loc.pvstr)
                                              ELSE Len(loc.pvval))))
    /\ (op = "assignPosValToPVs" /\ pc = "idle") =>
          AssignOutcome(IF Len(loc.pvstr) <= Len(loc.pvval)
                           THEN Len(loc.pvstr) ELSE Len(loc.pvval))

\* A call that applied its first pair and failed on the second name.
C10_Witness ==
    /\ op = "assignPosValToPVs" /\ pc = "idle" /\ err = "KeyError"
    /\ Len(loc.pvstr) = 2 /\ Len(loc.pvval) = 2 /\ Len(cmds) = 2
    /\ Len(logfile) = 1

====
